---- MODULE Spec2Model ----
(***************************************************************************)
(* A model of the file_rotating_log crate: one stream directory driven by  *)
(* one LogRotator (src/src/rotator.rs) over its Table (src/src/table.rs),  *)
(* with the TimePast day trigger (src/src/time_past.rs).                    *)
(*                                                                         *)
(* Every filesystem call of the rotator is one step, so that a process     *)
(* kill can fall between any two of them; pc is the position of the        *)
(* thread that holds the rotator's mutex.                                   *)
(*                                                                         *)
(* Spec is that rotator. The other specifications share the module:        *)
(* SpecLock (callers and the flusher under one Mutex), SpecFlusher (the    *)
(* flusher threads and their Weak handles), SpecDist (the LogDistributor   *)
(* of src/src/distributor.rs), SpecCron (the SlotMatcher of                *)
(* src/src/cron.rs), SpecTime (TimePast::poll) and SpecDaily (the threads   *)
(* of SpecLock polling the daily trigger). Each keeps the variables it     *)
(* does not use parked at their initial values.                            *)
(***************************************************************************)
EXTENDS Integers, Sequences, FiniteSets

\* ------------------------------------------------------------------ bounds
\* usize::MAX of the model: epochs and counters are usize, kept modulo UsizeMax + 1.
UsizeMax == 7
\* Records ever written to the stream.
MaxWrites == 4
\* Process kills.
MaxCrashes == 1
\* Readings of the wall clock (instants 0 .. MaxNow).
MaxNow == 2
\* Largest max_records / max_epochs the policy is drawn from.
MaxMaxRecords == 2
MaxMaxEpochs == 2

\* Instants per calendar day (jiff::Zoned::date() of an instant).
InstantsPerDay == 2

\* Threads under one mutex: records the callers write, and flusher ticks.
MaxLockWrites == 3
MaxLockTicks == 2

\* Background flushers: the rotators handed to spawn_flushers, and wake-ups.
FlusherTargets == 3
MaxWakes == 3

\* LogDistributor: records serialized over all streams, and flushes that fail.
MaxDistWrites == 2
MaxFlushFailures == 1

\* SlotMatcher: the largest value of a field, and polls.
MaxSlotValue == 1
MaxPolls == 4

\* TimePast alone: instants polled (0 .. MaxInstant), and polls.
MaxInstant == 5
MaxTimePolls == 4

VARIABLES
    rotation,   \* RotationPolicy: max_records (Option), time (configured?), max_epochs
    prev,       \* TimePast.prev : Option<instant>
    now,        \* the wall clock, what jiff::Zoned::now() returns
    pc,         \* position of the thread inside the rotator ("down": no process)
    op,         \* the public operation in progress
    table,      \* Table { records_written, epoch, writer }
    marker,     \* the file <output_dir>/epoch
    segs,       \* the files <output_dir>/<epoch>.<ext>, by epoch
    written,    \* history: records ever serialized into the stream
    created,    \* history: epochs whose segment file was ever created
    crashes,    \* history: process kills so far
    resumed     \* history: the marker file as the last construction found it

vars == <<rotation, prev, now, pc, op, table, marker, segs,
          written, created, crashes, resumed>>

\* Threads sharing one Arc<Mutex<LogRotator>>: the callers of Logger::write and
\* the thread of spawn_flushers.
VARIABLES
    mutex,      \* the Mutex: the thread holding its guard, or "free"
    tpc,        \* each thread's position in its code
    guarded,    \* the LogRotator inside the Mutex, and what its writer received
    ticks       \* history: wake-ups of the flusher thread

lockVars == <<mutex, tpc, guarded, ticks>>

\* The variables of the threads while no thread is modelled.
LockOff == mutex = "free" /\ tpc = <<>> /\ guarded = <<>> /\ ticks = 0

\* A background flusher thread and the targets it was spawned for.
VARIABLES
    spawned,    \* which function spawned the thread: spawn_flusher or spawn_flushers
    owned,      \* per target: its owners still hold a strong Arc
    rotators,   \* the thread's Vec<Weak<..>> (spawn_flusher: its one Weak)
    index,      \* spawn_flushers: the index i of the while loop
    fpc,        \* the thread's position
    upgraded,   \* the target whose upgraded Arc the thread holds (0: none)
    wakes,      \* history: sleeps that have ended
    woke_dead   \* history: a sleep has ended with every target dropped by its owners

flusherVars == <<spawned, owned, rotators, index, fpc, upgraded, wakes, woke_dead>>

\* The variables of the flusher while no flusher is modelled.
FlusherOff ==
    /\ spawned = "none"
    /\ owned = <<>>
    /\ rotators = <<>>
    /\ index = 0
    /\ fpc = "none"
    /\ upgraded = 0
    /\ wakes = 0
    /\ woke_dead = FALSE

\* One LogDistributor behind its Mutex, and the directories under its output_dir.
VARIABLES
    policy,     \* LogDistributor.rotation
    registry,   \* LogDistributor.rotators: stream name -> LogRotator (or vacant)
    dirs,       \* the directories under output_dir: marker and segment files
    clock,      \* the wall clock
    dpc,        \* position of the thread holding the distributor's Mutex
    pending,    \* LogDistributor::flush: streams its iteration has not reached
    poisoned,   \* the Mutex is poisoned (a thread panicked holding its guard)
    dcall,      \* history: the last call made on the distributor
    dwritten,   \* history: records serialized so far
    dincrs,     \* history: calls of incr_record_count on registered streams
    failures    \* history: flushes that have failed so far

distVars == <<policy, registry, dirs, clock, dpc, pending, poisoned, dcall,
              dwritten, dincrs, failures>>

\* The variables of the distributor while no distributor is modelled.
DistOff ==
    /\ policy = <<>>
    /\ registry = <<>>
    /\ dirs = <<>>
    /\ clock = 0
    /\ dpc = "none"
    /\ pending = {}
    /\ poisoned = FALSE
    /\ dcall = [op |-> "none", name |-> <<>>]
    /\ dwritten = 0
    /\ dincrs = 0
    /\ failures = 0

\* One SlotMatcher (cron.rs).
VARIABLES
    cells,      \* SlotMatcher.cells: per field its allow-set (instr) and prev
    ret,        \* what the last edge_triggered_poll returned
    polled,     \* history: the values of the last poll
    fired,      \* history: the values of the last poll that returned true
    changed,    \* history: values other than `fired` were polled since that poll
    polls       \* history: polls so far

cronVars == <<cells, ret, polled, fired, changed, polls>>

\* The variables of the SlotMatcher while none is modelled.
CronOff ==
    /\ cells = <<>>
    /\ ret = FALSE
    /\ polled = <<>>
    /\ fired = <<>>
    /\ changed = FALSE
    /\ polls = 0

\* One TimePast with the daily predicate (time_past.rs).
VARIABLES
    time_past,  \* TimePast.prev : Option<instant>
    verdict,    \* what the last TimePast::poll returned
    preceding,  \* history: the instant of the last poll (None before the first)
    earlier,    \* history: the instant of the poll before the last one
    time_polls  \* history: polls so far

timeVars == <<time_past, verdict, preceding, earlier, time_polls>>

\* The variables of the TimePast while none is modelled.
TimeOff ==
    /\ time_past = <<>>
    /\ verdict = FALSE
    /\ preceding = <<>>
    /\ earlier = <<>>
    /\ time_polls = 0

\* What the steps of the single rotator leave alone.
besidesRotator == <<lockVars, flusherVars, distVars, cronVars, timeVars>>

\* What the steps of the threads leave alone.
besidesLock == <<vars, flusherVars, distVars, cronVars, timeVars>>

\* What the steps of a background flusher leave alone.
besidesFlusher == <<vars, lockVars, distVars, cronVars, timeVars>>

\* What the steps of the distributor leave alone.
besidesDist == <<vars, lockVars, flusherVars, cronVars, timeVars>>

\* What the polls of the SlotMatcher leave alone.
besidesCron == <<vars, lockVars, flusherVars, distVars, timeVars>>

\* What the polls of the TimePast leave alone.
besidesTime == <<vars, lockVars, flusherVars, distVars, cronVars>>

\* ------------------------------------------------------------ usize, Option
Usize == 0 .. UsizeMax

None == [some |-> FALSE, val |-> 0]

Some(v) == [some |-> TRUE, val |-> v]

\* usize::wrapping_add
WrappingAdd(a, b) == (a + b) % (UsizeMax + 1)

\* usize::wrapping_sub
WrappingSub(a, b) == (a + (UsizeMax + 1) - b) % (UsizeMax + 1)

\* ------------------------------------------------ usize <-> decimal text
DigitChars == <<"0", "1", "2", "3", "4", "5", "6", "7", "8", "9">>

IsDigit(c) == \E i \in 1 .. 10 : DigitChars[i] = c

ToDigit(c) == (CHOOSE i \in 1 .. 10 : DigitChars[i] = c) - 1

\* usize::to_string : decimal digits, most significant first
RECURSIVE UsizeToString(_)
UsizeToString(n) ==
    IF n < 10 THEN <<DigitChars[n + 1]>>
    ELSE Append(UsizeToString(n \div 10), DigitChars[(n % 10) + 1])

\* The digit loop of <usize as FromStr>: checked_mul(10) then checked_add(digit).
RECURSIVE ParseDigits(_, _)
ParseDigits(s, acc) ==
    IF s = <<>> THEN Some(acc)
    ELSE IF ~IsDigit(Head(s)) THEN None
    ELSE IF acc * 10 > UsizeMax THEN None
    ELSE IF acc * 10 + ToDigit(Head(s)) > UsizeMax THEN None
    ELSE ParseDigits(Tail(s), acc * 10 + ToDigit(Head(s)))

\* str::parse::<usize>() : Err on empty text, a lone sign, a non-digit or overflow;
\* one leading "+" is accepted.
ParseUsize(s) ==
    IF s = <<>> THEN None
    ELSE IF Head(s) = "+" THEN (IF Tail(s) = <<>> THEN None ELSE ParseDigits(Tail(s), 0))
    ELSE ParseDigits(s, 0)

\* ------------------------------------------------------------------ files
NoFile == [exists |-> FALSE, text |-> <<>>]

File(t) == [exists |-> TRUE, text |-> t]

NoSeg == [exists |-> FALSE, recs |-> <<>>]

\* A segment file just created or truncated by LogWriter::open.
EmptySeg == [exists |-> TRUE, recs |-> <<>>]

\* log_file_path(output_dir, epoch, ext).exists()
SegExists(e) == segs[e].exists

SegsOnDisk == {e \in Usize : segs[e].exists}

\* ------------------------------------------------------------ the writer
\* The LogWriter of the tests (CsvLogWriter): a buffered writer over the file
\* opened at the segment path. linked: the path still names the open file.
Writer(e) == [path |-> e, buf |-> <<>>, linked |-> TRUE]

NoTable == [records_written |-> 0, epoch |-> 0, writer |-> Writer(0)]

\* A flush that rewrites the file from the buffer instead of appending to it.
FlushInto_Rewrite(w, fs) ==
    IF w.linked /\ fs[w.path].exists /\ w.buf /= <<>>
    THEN [fs EXCEPT ![w.path].recs = w.buf]
    ELSE fs

\* LogWriter::flush, and the buffered writer's flush when it is dropped: the
\* buffer goes to the open file (to nowhere once the path was unlinked).
FlushInto(w, fs) ==
    IF w.linked /\ fs[w.path].exists
    THEN [fs EXCEPT ![w.path].recs = fs[w.path].recs \o w.buf]
    ELSE fs

\* ------------------------------------------------------------ rotator.rs
\* cur_epoch(output_dir): the parsed marker, and the marker file it leaves.
CurEpoch(m) ==
    IF ~m.exists THEN [ret |-> None, marker |-> m]
    ELSE IF ParseUsize(m.text).some THEN [ret |-> ParseUsize(m.text), marker |-> m]
    ELSE [ret |-> None, marker |-> NoFile]

\* A resume that reopens the marker's own epoch (the wrapping_add(1) left out).
ResumeEpoch_SameEpoch(m) ==
    IF CurEpoch(m).ret.some THEN CurEpoch(m).ret.val ELSE 0

\* LogRotator::new: cur_epoch(..).map(|e| e.wrapping_add(1)).unwrap_or_default()
ResumeEpoch(m) ==
    IF CurEpoch(m).ret.some THEN WrappingAdd(CurEpoch(m).ret.val, 1) ELSE 0

\* replace_writer: self.table.epoch().wrapping_add(1)
NewPathEpoch(epoch) == WrappingAdd(epoch, 1)

\* A marker that persists the epoch to come instead of the epoch that was opened.
EpochText_Ahead(epoch) == UsizeToString(WrappingAdd(epoch, 1))

\* write_epoch: epoch.to_string().as_bytes()
EpochText(epoch) == UsizeToString(epoch)

\* A pruning that counts the window exclusive of the active epoch's predecessor.
DelEpoch_OneLate(epoch, max_epochs) == WrappingSub(epoch, max_epochs - 1)

\* A pruning that keeps one segment more than the window.
DelEpoch_OneEarly(epoch, max_epochs) == WrappingSub(epoch, max_epochs + 1)

\* delete_old_log_file: epoch.wrapping_sub(max_epochs)
DelEpoch(epoch, max_epochs) == WrappingSub(epoch, max_epochs)

\* A record threshold that never triggers.
IsMaxRecordsTriggered_Never(max_records, records_written) == FALSE

\* A threshold compared with < instead of <=.
IsMaxRecordsTriggered_Strict(max_records, records_written) ==
    IF max_records.some THEN max_records.val < records_written ELSE FALSE

\* try_rotate_file: max_records.get() <= self.table.records_written()
IsMaxRecordsTriggered(max_records, records_written) ==
    IF max_records.some THEN max_records.val <= records_written ELSE FALSE

\* ---------------------------------------------------------- time_past.rs
\* Zoned::date()
Date(t) == t \div InstantsPerDay

\* A matcher that compares the two instants instead of their dates.
DailyContains_Instants(exclusive_start, inclusive_end) ==
    IF ~exclusive_start.some THEN FALSE
    ELSE exclusive_start.val /= inclusive_end

\* DailyContains::matches(Interval { exclusive_start, inclusive_end })
DailyContains(exclusive_start, inclusive_end) ==
    IF ~exclusive_start.some THEN FALSE
    ELSE Date(exclusive_start.val) /= Date(inclusive_end)

\* TimePast::poll(now): the verdict; prev becomes Some(now) in the same call.
Poll(p, t) == DailyContains(p, t)

\* try_rotate_file: the time trigger is polled only when it is configured.
IsTimeTriggered(time, p, t) == IF time THEN Poll(p, t) ELSE FALSE

\* try_rotate_file: should_rotate
ShouldRotate(rot, records_written, p, t) ==
    IsMaxRecordsTriggered(rot.max_records, records_written)
        \/ IsTimeTriggered(rot.time, p, t)

\* ------------------------------------------------------------------- Init
\* Marker texts a directory may hold when the process starts: a non-digit, a
\* minus sign, a number above usize::MAX, a signed numeral with a leading zero,
\* and the two largest epochs. (The empty marker is what a kill inside
\* write_epoch leaves.)
MarkerInputs ==
    { <<"x">>, <<"-", "1">>, UsizeToString(UsizeMax + 3),
      <<"+", "0", "1">>, UsizeToString(UsizeMax - 1), UsizeToString(UsizeMax) }

Policies ==
    [max_records : {None} \cup {Some(n) : n \in 1 .. MaxMaxRecords},
     time : BOOLEAN,
     max_epochs : 0 .. MaxMaxEpochs]

\* A fresh directory.
InitFresh ==
    /\ marker = NoFile
    /\ segs = [e \in Usize |-> NoSeg]
    /\ written = 0
    /\ created = {}

\* A directory left by an earlier run: a marker, and behind a readable marker E
\* the segment E holding record 0.
InitLeft ==
    \E t \in MarkerInputs :
        /\ marker = File(t)
        /\ IF ParseUsize(t).some
           THEN /\ segs = [e \in Usize |->
                            IF e = ParseUsize(t).val
                            THEN [exists |-> TRUE, recs |-> <<0>>] ELSE NoSeg]
                /\ written = 1
                /\ created = {ParseUsize(t).val}
           ELSE /\ segs = [e \in Usize |-> NoSeg]
                /\ written = 0
                /\ created = {}

Init ==
    /\ rotation \in Policies
    /\ prev = None
    /\ now = 0
    /\ pc = "down"
    /\ op = "none"
    /\ table = NoTable
    /\ crashes = 0
    /\ resumed = NoFile
    /\ (InitFresh \/ InitLeft)
    /\ LockOff
    /\ FlusherOff
    /\ DistOff
    /\ CronOff
    /\ TimeOff

\* ---------------------------------------------------------------- actions
\* LogRotator::new, line 48: cur_epoch reads (and may delete) the marker; the
\* local `epoch` is kept in table.epoch until Table::new.
New_CurEpoch ==
    /\ pc = "down"
    /\ resumed' = marker
    /\ marker' = CurEpoch(marker).marker
    /\ table' = [NoTable EXCEPT !.epoch = ResumeEpoch(marker)]
    /\ prev' = None
    /\ pc' = "new_open"
    /\ op' = "new"
    /\ UNCHANGED <<rotation, now, segs, written, created, crashes>>
    /\ UNCHANGED besidesRotator

\* LogRotator::new, lines 51-53: create_clean_log_writer(path), Table::new.
New_Open ==
    /\ pc = "new_open"
    /\ segs' = [segs EXCEPT ![table.epoch] = EmptySeg]
    /\ created' = created \cup {table.epoch}
    /\ table' = [records_written |-> 0, epoch |-> table.epoch,
                 writer |-> Writer(table.epoch)]
    /\ pc' = "write_epoch_open"
    /\ UNCHANGED <<rotation, prev, now, op, marker, written, crashes, resumed>>
    /\ UNCHANGED besidesRotator

\* enforce_epoch -> write_epoch, lines 151-156: open with create + truncate.
WriteEpoch_Open ==
    /\ pc = "write_epoch_open"
    /\ marker' = File(<<>>)
    /\ pc' = "write_epoch_write"
    /\ UNCHANGED <<rotation, prev, now, op, table, segs, written, created,
                   crashes, resumed>>
    /\ UNCHANGED besidesRotator

\* enforce_epoch -> write_epoch, line 157: write_all(epoch.to_string()).
WriteEpoch_Write ==
    /\ pc = "write_epoch_write"
    /\ marker' = File(EpochText(table.epoch))
    /\ pc' = "delete_old"
    /\ UNCHANGED <<rotation, prev, now, op, table, segs, written, created,
                   crashes, resumed>>
    /\ UNCHANGED besidesRotator

\* enforce_epoch -> delete_old_log_file; the operation (new or a rotation) ends.
DeleteOldLogFile ==
    /\ pc = "delete_old"
    /\ LET d == DelEpoch(table.epoch, rotation.max_epochs) IN
        /\ segs' = IF segs[d].exists THEN [segs EXCEPT ![d] = NoSeg] ELSE segs
        /\ table' = IF segs[d].exists /\ d = table.writer.path
                    THEN [table EXCEPT !.writer.linked = FALSE] ELSE table
    /\ pc' = "idle"
    /\ op' = "none"
    /\ UNCHANGED <<rotation, prev, now, marker, written, created, crashes, resumed>>
    /\ UNCHANGED besidesRotator

\* Logger::write, line 246: rotator.writer().writer().serialize(record).
LoggerWrite ==
    /\ pc = "idle"
    /\ written < MaxWrites
    /\ table' = [table EXCEPT !.writer.buf = Append(table.writer.buf, written)]
    /\ written' = written + 1
    /\ pc' = "incr"
    /\ op' = "write"
    /\ UNCHANGED <<rotation, prev, now, marker, segs, created, crashes, resumed>>
    /\ UNCHANGED besidesRotator

\* LogRotator::incr_record_count -> Table::incr_record_count: records_written += 1,
\* which panics (overflow checks on) or wraps (off) at usize::MAX.
IncrRecordCount ==
    /\ pc = "incr"
    /\ IF table.records_written = UsizeMax
       THEN \E overflow_checks \in BOOLEAN :
               IF overflow_checks
               THEN pc' = "panicked" /\ table' = table
               ELSE pc' = "try_rotate" /\ table' = [table EXCEPT !.records_written = 0]
       ELSE /\ table' = [table EXCEPT !.records_written = table.records_written + 1]
            /\ pc' = "try_rotate"
    /\ UNCHANGED <<rotation, prev, now, op, marker, segs, written, created,
                   crashes, resumed>>
    /\ UNCHANGED besidesRotator

\* LogRotator::try_rotate_file, lines 81-92: both triggers are evaluated.
TryRotateFile ==
    /\ pc = "try_rotate"
    /\ prev' = IF rotation.time THEN Some(now) ELSE prev
    /\ IF ShouldRotate(rotation, table.records_written, prev, now)
       THEN pc' = "replace_open" /\ op' = op
       ELSE pc' = "idle" /\ op' = "none"
    /\ UNCHANGED <<rotation, now, table, marker, segs, written, created,
                   crashes, resumed>>
    /\ UNCHANGED besidesRotator

\* replace_writer, lines 99-104: create_clean_log_writer(new_path).
ReplaceWriter_Open ==
    /\ pc = "replace_open"
    /\ segs' = [segs EXCEPT ![NewPathEpoch(table.epoch)] = EmptySeg]
    /\ created' = created \cup {NewPathEpoch(table.epoch)}
    /\ pc' = "table_replace"
    /\ UNCHANGED <<rotation, prev, now, op, table, marker, written, crashes, resumed>>
    /\ UNCHANGED besidesRotator

\* Table::replace: self.writer = writer (the old writer is dropped, which
\* flushes it); self.epoch += 1 (panics with overflow checks on, wraps with
\* them off); self.records_written = 0.
TableReplace ==
    /\ pc = "table_replace"
    /\ segs' = FlushInto(table.writer, segs)
    /\ IF table.epoch = UsizeMax
       THEN \E overflow_checks \in BOOLEAN :
               IF overflow_checks
               THEN /\ table' = [table EXCEPT !.writer = Writer(NewPathEpoch(table.epoch))]
                    /\ pc' = "panicked"
               ELSE /\ table' = [records_written |-> 0, epoch |-> 0,
                                 writer |-> Writer(NewPathEpoch(table.epoch))]
                    /\ pc' = "write_epoch_open"
       ELSE /\ table' = [records_written |-> 0, epoch |-> table.epoch + 1,
                         writer |-> Writer(NewPathEpoch(table.epoch))]
            /\ pc' = "write_epoch_open"
    /\ UNCHANGED <<rotation, prev, now, op, marker, written, created, crashes, resumed>>
    /\ UNCHANGED besidesRotator

\* Logger::flush -> LogRotator::flush -> Table::flush -> LogWriter::flush.
LoggerFlush ==
    /\ pc = "idle"
    /\ segs' = FlushInto(table.writer, segs)
    /\ table' = [table EXCEPT !.writer.buf = <<>>]
    /\ UNCHANGED <<rotation, prev, now, pc, op, marker, written, created,
                   crashes, resumed>>
    /\ UNCHANGED besidesRotator

\* spawn_flushers, lines 28-30: under the lock, rotator.flush() and then
\* rotator.try_rotate_file().
FlusherTick ==
    /\ pc = "idle"
    /\ segs' = FlushInto(table.writer, segs)
    /\ table' = [table EXCEPT !.writer.buf = <<>>]
    /\ pc' = "try_rotate"
    /\ op' = "flusher"
    /\ UNCHANGED <<rotation, prev, now, marker, written, created, crashes, resumed>>
    /\ UNCHANGED besidesRotator

\* The wall clock advances. It is read only by a configured time trigger, at
\* try_rotate_file, so it is advanced only between operations.
ClockTick ==
    /\ pc = "idle"
    /\ rotation.time
    /\ now < MaxNow
    /\ now' = now + 1
    /\ UNCHANGED <<rotation, prev, pc, op, table, marker, segs, written, created,
                   crashes, resumed>>
    /\ UNCHANGED besidesRotator

\* The process is killed (or exits after a panic): memory is lost, files stay.
Crash ==
    /\ pc /= "down"
    /\ crashes < MaxCrashes
    /\ crashes' = crashes + 1
    /\ pc' = "down"
    /\ op' = "none"
    /\ table' = NoTable
    /\ prev' = None
    /\ UNCHANGED <<rotation, now, marker, segs, written, created, resumed>>
    /\ UNCHANGED besidesRotator

Next ==
    \/ New_CurEpoch
    \/ New_Open
    \/ WriteEpoch_Open
    \/ WriteEpoch_Write
    \/ DeleteOldLogFile
    \/ LoggerWrite
    \/ IncrRecordCount
    \/ TryRotateFile
    \/ ReplaceWriter_Open
    \/ TableReplace
    \/ LoggerFlush
    \/ FlusherTick
    \/ ClockTick
    \/ Crash

Spec == Init /\ [][Next]_vars

\* ===================================================== threads and the Mutex
\* The rotator's variables while no single-rotator run is modelled.
RotatorOff ==
    /\ rotation = [max_records |-> None, time |-> FALSE, max_epochs |-> 0]
    /\ prev = None
    /\ now = 0
    /\ pc = "down"
    /\ op = "none"
    /\ table = NoTable
    /\ crashes = 0
    /\ resumed = NoFile
    /\ InitFresh

\* Threads calling Logger::write on clones of the Arc.
Callers == {"c1", "c2"}

\* The thread spawned by spawn_flushers.
Flusher == "f"

Threads == Callers \cup {Flusher}

\* A Mutex::lock that does not wait for the guard to be released.
CanLock_Always(m) == TRUE

\* Mutex::lock returns once no other thread holds the guard.
CanLock(m) == m = "free"

\* Positions inside LogRotator::try_rotate_file at which a rotation is under way:
\* replace_writer (new segment, Table::replace) and enforce_epoch (marker, pruning).
RotationSteps == {"replace_writer", "write_epoch", "delete_old"}

\* The rotator the threads share: constructed on a fresh directory, with any
\* policy; in_writer counts the records the current writer has received.
InitLock ==
    /\ mutex = "free"
    /\ tpc = [t \in Threads |-> IF t = Flusher THEN "sleep" ELSE "start"]
    /\ \E m \in 1 .. MaxMaxRecords, time \in BOOLEAN :
          guarded = [max_records |-> Some(m), time |-> time, records_written |-> 0,
                     epoch |-> 0, in_writer |-> 0, serialized |-> 0,
                     marker |-> 0, pruned |-> 0]
    /\ ticks = 0
    /\ RotatorOff
    /\ FlusherOff
    /\ DistOff
    /\ CronOff
    /\ TimeOff

\* Logger::write, line 245: self.rotator.lock().unwrap()
Caller_Lock(t) ==
    /\ t \in Callers
    /\ tpc[t] = "start"
    /\ guarded.serialized < MaxLockWrites
    /\ CanLock(mutex)
    /\ mutex' = t
    /\ tpc' = [tpc EXCEPT ![t] = "serialize"]
    /\ UNCHANGED <<guarded, ticks>>
    /\ UNCHANGED besidesLock

\* Logger::write, line 246: rotator.writer().writer().serialize(record)
Caller_Serialize(t) ==
    /\ t \in Callers
    /\ tpc[t] = "serialize"
    /\ guarded' = [guarded EXCEPT !.in_writer = @ + 1, !.serialized = @ + 1]
    /\ tpc' = [tpc EXCEPT ![t] = "incr"]
    /\ UNCHANGED <<mutex, ticks>>
    /\ UNCHANGED besidesLock

\* Logger::write, line 247: rotator.incr_record_count(), up to try_rotate_file.
Caller_Incr(t) ==
    /\ t \in Callers
    /\ tpc[t] = "incr"
    /\ guarded' = [guarded EXCEPT !.records_written = @ + 1]
    /\ tpc' = [tpc EXCEPT ![t] = "try_rotate"]
    /\ UNCHANGED <<mutex, ticks>>
    /\ UNCHANGED besidesLock

\* spawn_flushers, lines 20-28: the sleep ends, the Weak upgrades, lock().
Flusher_Lock ==
    /\ tpc[Flusher] = "sleep"
    /\ ticks < MaxLockTicks
    /\ CanLock(mutex)
    /\ mutex' = Flusher
    /\ ticks' = ticks + 1
    /\ tpc' = [tpc EXCEPT ![Flusher] = "flush"]
    /\ UNCHANGED guarded
    /\ UNCHANGED besidesLock

\* spawn_flushers, line 29: rotator.flush()
Flusher_Flush ==
    /\ tpc[Flusher] = "flush"
    /\ tpc' = [tpc EXCEPT ![Flusher] = "try_rotate"]
    /\ UNCHANGED <<mutex, guarded, ticks>>
    /\ UNCHANGED besidesLock

\* LogRotator::try_rotate_file, lines 81-92, by a caller (from incr_record_count)
\* or by the flusher (line 30). The verdict of a configured time trigger depends
\* on the wall clock, which these threads do not control.
Thread_TryRotate(t) ==
    /\ tpc[t] = "try_rotate"
    /\ \E is_time_triggered \in {FALSE, guarded.time} :
          IF IsMaxRecordsTriggered(guarded.max_records, guarded.records_written)
                \/ is_time_triggered
          THEN tpc' = [tpc EXCEPT ![t] = "replace_writer"]
          ELSE tpc' = [tpc EXCEPT ![t] = "unlock"]
    /\ UNCHANGED <<mutex, guarded, ticks>>
    /\ UNCHANGED besidesLock

\* replace_writer, lines 98-106: the new segment is opened and Table::replace
\* installs it: epoch + 1, counter 0.
Thread_ReplaceWriter(t) ==
    /\ tpc[t] = "replace_writer"
    /\ guarded' = [guarded EXCEPT !.epoch = NewPathEpoch(@),
                                  !.records_written = 0, !.in_writer = 0]
    /\ tpc' = [tpc EXCEPT ![t] = "write_epoch"]
    /\ UNCHANGED <<mutex, ticks>>
    /\ UNCHANGED besidesLock

\* enforce_epoch -> write_epoch: the marker gets the Table's epoch.
Thread_WriteEpoch(t) ==
    /\ tpc[t] = "write_epoch"
    /\ guarded' = [guarded EXCEPT !.marker = guarded.epoch]
    /\ tpc' = [tpc EXCEPT ![t] = "delete_old"]
    /\ UNCHANGED <<mutex, ticks>>
    /\ UNCHANGED besidesLock

\* enforce_epoch -> delete_old_log_file; pruned counts the pruning runs.
Thread_DeleteOld(t) ==
    /\ tpc[t] = "delete_old"
    /\ guarded' = [guarded EXCEPT !.pruned = @ + 1]
    /\ tpc' = [tpc EXCEPT ![t] = "unlock"]
    /\ UNCHANGED <<mutex, ticks>>
    /\ UNCHANGED besidesLock

\* The MutexGuard is dropped at the end of Logger::write (line 248) and at the
\* end of the flusher's loop body (line 31).
Thread_Unlock(t) ==
    /\ tpc[t] = "unlock"
    /\ mutex' = IF mutex = t THEN "free" ELSE mutex
    /\ tpc' = [tpc EXCEPT ![t] = IF t = Flusher THEN "sleep" ELSE "start"]
    /\ UNCHANGED <<guarded, ticks>>
    /\ UNCHANGED besidesLock

NextLock ==
    \/ \E t \in Callers : Caller_Lock(t)
    \/ \E t \in Callers : Caller_Serialize(t)
    \/ \E t \in Callers : Caller_Incr(t)
    \/ Flusher_Lock
    \/ Flusher_Flush
    \/ \E t \in Threads : Thread_TryRotate(t)
    \/ \E t \in Threads : Thread_ReplaceWriter(t)
    \/ \E t \in Threads : Thread_WriteEpoch(t)
    \/ \E t \in Threads : Thread_DeleteOld(t)
    \/ \E t \in Threads : Thread_Unlock(t)

SpecLock == InitLock /\ [][NextLock]_lockVars


\* ====================================================== background flushers
\* Vec::swap_remove(j), j counted from 0: the last element takes the place of
\* the removed one.
SwapRemove(v, j) ==
    [k \in 1 .. (Len(v) - 1) |-> IF k = j + 1 THEN v[Len(v)] ELSE v[k]]

\* Weak::upgrade succeeds while some strong Arc exists: an owner's, or the one
\* the thread itself holds.
Upgradable(t) == owned[t] \/ upgraded = t

\* Every target has been dropped by its owners.
AllDropped == \A t \in DOMAIN owned : ~owned[t]

\* spawn_flusher(distributor, ..) with its one target, or spawn_flushers(vec, ..)
\* with one or more rotators, the thread asleep in its first sleep.
InitFlusher ==
    /\ \/ spawned = "spawn_flusher" /\ rotators = <<1>>
       \/ /\ spawned = "spawn_flushers"
          /\ \E n \in 1 .. FlusherTargets : rotators = [k \in 1 .. n |-> k]
    /\ owned = [t \in 1 .. Len(rotators) |-> TRUE]
    /\ index = 0
    /\ fpc = "sleep"
    /\ upgraded = 0
    /\ wakes = 0
    /\ woke_dead = FALSE
    /\ RotatorOff
    /\ LockOff
    /\ DistOff
    /\ CronOff
    /\ TimeOff

\* The owners drop their last strong reference to a target.
Owner_Drop(t) ==
    /\ t \in DOMAIN owned
    /\ owned[t]
    /\ owned' = [owned EXCEPT ![t] = FALSE]
    /\ UNCHANGED <<spawned, rotators, index, fpc, upgraded, wakes, woke_dead>>
    /\ UNCHANGED besidesFlusher

\* spawn_flusher, lines 22-25: the sleep ends; upgrade, else return.
SpawnFlusher_Wake ==
    /\ spawned = "spawn_flusher"
    /\ fpc = "sleep"
    /\ wakes < MaxWakes
    /\ wakes' = wakes + 1
    /\ woke_dead' = (woke_dead \/ AllDropped)
    /\ IF Upgradable(rotators[1])
       THEN upgraded' = rotators[1] /\ fpc' = "locked"
       ELSE upgraded' = upgraded /\ fpc' = "returned"
    /\ UNCHANGED <<spawned, owned, rotators, index>>
    /\ UNCHANGED besidesFlusher

\* spawn_flusher, lines 26-27: lock().unwrap().flush(); guard and Arc dropped.
SpawnFlusher_Flush ==
    /\ spawned = "spawn_flusher"
    /\ fpc = "locked"
    /\ upgraded' = 0
    /\ fpc' = "sleep"
    /\ UNCHANGED <<spawned, owned, rotators, index, wakes, woke_dead>>
    /\ UNCHANGED besidesFlusher

\* spawn_flushers, lines 20-21: the sleep ends; let mut i = 0.
SpawnFlushers_Wake ==
    /\ spawned = "spawn_flushers"
    /\ fpc = "sleep"
    /\ wakes < MaxWakes
    /\ wakes' = wakes + 1
    /\ woke_dead' = (woke_dead \/ AllDropped)
    /\ index' = 0
    /\ fpc' = "get"
    /\ UNCHANGED <<spawned, owned, rotators, upgraded>>
    /\ UNCHANGED besidesFlusher

\* spawn_flushers, lines 22-27: rotators.get(i); upgrade, else swap_remove(i) and
\* continue; i += 1. When get(i) is None the while loop ends and the outer
\* `loop` goes back to the sleep.
SpawnFlushers_Get ==
    /\ spawned = "spawn_flushers"
    /\ fpc = "get"
    /\ IF index < Len(rotators)
       THEN IF Upgradable(rotators[index + 1])
            THEN /\ upgraded' = rotators[index + 1]
                 /\ index' = index + 1
                 /\ fpc' = "locked"
                 /\ UNCHANGED rotators
            ELSE /\ rotators' = SwapRemove(rotators, index)
                 /\ UNCHANGED <<upgraded, index, fpc>>
       ELSE /\ fpc' = "sleep"
            /\ UNCHANGED <<upgraded, index, rotators>>
    /\ UNCHANGED <<spawned, owned, wakes, woke_dead>>
    /\ UNCHANGED besidesFlusher

\* spawn_flushers, lines 28-31: lock, flush, try_rotate_file; the guard and the
\* upgraded Arc are dropped at the end of the loop body.
SpawnFlushers_Flush ==
    /\ spawned = "spawn_flushers"
    /\ fpc = "locked"
    /\ upgraded' = 0
    /\ fpc' = "get"
    /\ UNCHANGED <<spawned, owned, rotators, index, wakes, woke_dead>>
    /\ UNCHANGED besidesFlusher

NextFlusher ==
    \/ \E t \in 1 .. FlusherTargets : Owner_Drop(t)
    \/ SpawnFlusher_Wake
    \/ SpawnFlusher_Flush
    \/ SpawnFlushers_Wake
    \/ SpawnFlushers_Get
    \/ SpawnFlushers_Flush

SpecFlusher == InitFlusher /\ [][NextFlusher]_flusherVars


\* ============================================================ LogDistributor
\* Pairs of stream names (table_name), as texts, that the callers of one
\* distributor may use.
NamePairs == { {<<"a">>, <<"b">>}, {<<"a">>, <<"a", "/">>} }

\* The stream names the callers of this distributor use.
StreamNames == DOMAIN registry

\* The directory that output_dir.join(table_name) names, by the components of
\* the joined path below output_dir: separators delimit components, and a
\* trailing separator adds none.
OutputDir(table_name) == SelectSeq(table_name, LAMBDA c : c /= "/")

Directories == {OutputDir(n) : n \in UNION NamePairs}

\* A directory that does not exist.
NoDir == [exists |-> FALSE, marker |-> NoFile, segs |-> [e \in Usize |-> NoSeg]]

\* A vacant entry of the registry; an occupied one holds the LogRotator: its
\* Table and the TimePast of its clone of the policy.
NoRotator ==
    [some |-> FALSE, records_written |-> 0, epoch |-> 0, prev |-> None,
     writer |-> Writer(0)]

Registered == {n \in StreamNames : registry[n].some}

\* An entry lookup that always finds the entry vacant.
IsOccupied_Never(reg, table_name) == FALSE

\* HashMap::entry(table_name) is Occupied / get_mut(table_name) is Some.
IsOccupied(reg, table_name) == reg[table_name].some

\* remove_file on segment e of directory d: the writers that have that file
\* open keep writing to a file no path names any more.
Unlinked(reg, d, e) ==
    [n \in StreamNames |->
        IF reg[n].some /\ OutputDir(n) = d /\ reg[n].writer.path = e
        THEN [reg[n] EXCEPT !.writer.linked = FALSE]
        ELSE reg[n]]

\* enforce_epoch on a directory: write_epoch, then delete_old_log_file.
EnforceEpoch(D, epoch, max_epochs) ==
    [D EXCEPT !.marker = File(EpochText(epoch)),
              !.segs[DelEpoch(epoch, max_epochs)] = NoSeg]

\* The registry after enforce_epoch in directory d, over the segments fs that
\* were there before it.
AfterEnforce(reg, d, fs, epoch, max_epochs) ==
    IF fs[DelEpoch(epoch, max_epochs)].exists
    THEN Unlinked(reg, d, DelEpoch(epoch, max_epochs))
    ELSE reg

\* LogRotator::new(output_dir.join(table_name), rotation.clone()): the rotator ..
NewRotator(D) ==
    [some |-> TRUE, records_written |-> 0, epoch |-> ResumeEpoch(D.marker),
     prev |-> None, writer |-> Writer(ResumeEpoch(D.marker))]

\* .. and the directory, before enforce_epoch: cur_epoch, create_dir_all, open.
NewRotatorOpened(D) ==
    [exists |-> TRUE, marker |-> CurEpoch(D.marker).marker,
     segs |-> [D.segs EXCEPT ![ResumeEpoch(D.marker)] = EmptySeg]]

\* replace_writer on rotator r: the new segment is opened, the old writer is
\* dropped (which flushes it).
ReplacedSegs(r, fs) ==
    FlushInto(r.writer, [fs EXCEPT ![NewPathEpoch(r.epoch)] = EmptySeg])

\* The policies a distributor is given here: a record threshold of 1 or none,
\* with or without the daily trigger, retention windows 1 and 2.
DistPolicies ==
    [max_records : {None, Some(1)}, time : BOOLEAN, max_epochs : {1, 2}]

\* A fresh output_dir and an empty registry, behind the Mutex.
InitDist ==
    /\ policy \in DistPolicies
    /\ \E names \in NamePairs : registry = [n \in names |-> NoRotator]
    /\ dirs = [d \in Directories |-> NoDir]
    /\ clock = 0
    /\ dpc = "idle"
    /\ pending = {}
    /\ poisoned = FALSE
    /\ dcall = [op |-> "none", name |-> <<>>]
    /\ dwritten = 0
    /\ dincrs = 0
    /\ failures = 0
    /\ RotatorOff
    /\ LockOff
    /\ FlusherOff
    /\ CronOff
    /\ TimeOff

\* LogDistributor::writer(table_name), reached through lock().unwrap().
Dist_Writer(table_name) ==
    /\ dpc = "idle"
    /\ ~poisoned
    /\ dcall' = [op |-> "writer", name |-> table_name]
    /\ IF IsOccupied(registry, table_name)
       THEN UNCHANGED <<registry, dirs>>
       ELSE LET d == OutputDir(table_name)
                rotator == NewRotator(dirs[d])
                opened == NewRotatorOpened(dirs[d])
            IN  /\ dirs' = [dirs EXCEPT ![d] =
                              EnforceEpoch(opened, rotator.epoch, policy.max_epochs)]
                /\ registry' = AfterEnforce([registry EXCEPT ![table_name] = rotator],
                                            d, opened.segs, rotator.epoch,
                                            policy.max_epochs)
    /\ UNCHANGED <<policy, clock, dpc, pending, poisoned, dwritten, dincrs, failures>>
    /\ UNCHANGED besidesDist

\* The caller serializes a record into the writer that writer(table_name) has
\* just returned (tests::Logger::write, lines 143-147).
Dist_Serialize(table_name) ==
    /\ dpc = "idle"
    /\ dcall = [op |-> "writer", name |-> table_name]
    /\ dwritten < MaxDistWrites
    /\ registry' = [registry EXCEPT ![table_name].writer.buf = Append(@, dwritten)]
    /\ dwritten' = dwritten + 1
    /\ dcall' = [op |-> "serialize", name |-> table_name]
    /\ UNCHANGED <<policy, dirs, clock, dpc, pending, poisoned, dincrs, failures>>
    /\ UNCHANGED besidesDist

\* LogDistributor::incr_record_count(table_name), with the try_rotate_file,
\* replace_writer and enforce_epoch of the stream's rotator.
Dist_IncrRecordCount(table_name) ==
    /\ dpc = "idle"
    /\ ~poisoned
    /\ dcall' = [op |-> "incr", name |-> table_name]
    /\ IF ~IsOccupied(registry, table_name)
       THEN UNCHANGED <<registry, dirs, dincrs>>
       ELSE LET d == OutputDir(table_name)
                r == registry[table_name]
                counted == [r EXCEPT !.records_written = @ + 1,
                                    !.prev = IF policy.time THEN Some(clock) ELSE @]
                replaced == [counted EXCEPT !.records_written = 0,
                                           !.epoch = @ + 1,
                                           !.writer = Writer(NewPathEpoch(r.epoch))]
            IN  /\ dincrs < MaxDistWrites
                /\ dincrs' = dincrs + 1
                /\ IF ShouldRotate(policy, counted.records_written, r.prev, clock)
                   THEN /\ dirs' = [dirs EXCEPT ![d] =
                                EnforceEpoch([@ EXCEPT !.segs = ReplacedSegs(r, @)],
                                             replaced.epoch, policy.max_epochs)]
                        /\ registry' =
                              AfterEnforce([registry EXCEPT ![table_name] = replaced],
                                           d, ReplacedSegs(r, dirs[d].segs),
                                           replaced.epoch, policy.max_epochs)
                   ELSE /\ registry' = [registry EXCEPT ![table_name] = counted]
                        /\ UNCHANGED dirs
    /\ UNCHANGED <<policy, clock, dpc, pending, poisoned, dwritten, failures>>
    /\ UNCHANGED besidesDist

\* LogDistributor::flush, line 52: rotators.iter_mut(); a HashMap iterates in an
\* order of its own, so the streams not yet reached are kept as a set.
Dist_Flush_Begin ==
    /\ dpc = "idle"
    /\ ~poisoned
    /\ pending' = Registered
    /\ dpc' = "flush"
    /\ dcall' = [op |-> "flush", name |-> <<>>]
    /\ UNCHANGED <<policy, registry, dirs, clock, poisoned, dwritten, dincrs, failures>>
    /\ UNCHANGED besidesDist

\* LogDistributor::flush, line 53: t.flush() on the next stream. Writing out a
\* buffer that holds records may fail. LogWriter::flush returns nothing: a
\* writer whose flush fails panics (CsvLogWriter: unwrap), the panic leaves
\* for_each and flush, and the MutexGuard is dropped in a panic.
Dist_Flush_Stream(table_name) ==
    /\ dpc = "flush"
    /\ table_name \in pending
    /\ \E fails \in {FALSE} \cup {/\ failures < MaxFlushFailures
                                  /\ registry[table_name].writer.buf /= <<>>} :
          IF fails
          THEN /\ dpc' = "panicked"
               /\ poisoned' = TRUE
               /\ failures' = failures + 1
               /\ dcall' = [op |-> "flush", name |-> table_name]
               /\ UNCHANGED <<registry, dirs, pending>>
          ELSE /\ dirs' = [dirs EXCEPT ![OutputDir(table_name)].segs =
                              FlushInto(registry[table_name].writer, @)]
               /\ registry' = [registry EXCEPT ![table_name].writer.buf = <<>>]
               /\ pending' = pending \ {table_name}
               /\ UNCHANGED <<dpc, poisoned, failures, dcall>>
    /\ UNCHANGED <<policy, clock, dwritten, dincrs>>
    /\ UNCHANGED besidesDist

\* LogDistributor::flush returns: the iteration is over.
Dist_Flush_End ==
    /\ dpc = "flush"
    /\ pending = {}
    /\ dpc' = "idle"
    /\ UNCHANGED <<policy, registry, dirs, clock, pending, poisoned, dcall,
                   dwritten, dincrs, failures>>
    /\ UNCHANGED besidesDist

\* The wall clock advances to the next day (it is read by the streams' daily
\* triggers only, which compare dates).
Dist_ClockTick ==
    /\ dpc = "idle"
    /\ policy.time
    /\ clock + InstantsPerDay <= MaxNow
    /\ clock' = clock + InstantsPerDay
    /\ UNCHANGED <<policy, registry, dirs, dpc, pending, poisoned, dcall,
                   dwritten, dincrs, failures>>
    /\ UNCHANGED besidesDist

NextDist ==
    \/ \E n \in StreamNames : Dist_Writer(n)
    \/ \E n \in StreamNames : Dist_Serialize(n)
    \/ \E n \in StreamNames : Dist_IncrRecordCount(n)
    \/ Dist_Flush_Begin
    \/ \E n \in StreamNames : Dist_Flush_Stream(n)
    \/ Dist_Flush_End
    \/ Dist_ClockTick

SpecDist == InitDist /\ [][NextDist]_distVars


\* ============================================================== SlotMatcher
SlotValues == 0 .. MaxSlotValue

\* AllowedSet2: Any, or Selected(AllowedSet) over a non-empty set of values.
Any == [any |-> TRUE, allowed |-> {}]

Selected(S) == [any |-> FALSE, allowed |-> S]

AllowedSets == {Any} \cup {Selected(S) : S \in (SUBSET SlotValues) \ {{}}}

\* AllowedSet2::is_allowed
IsAllowed(instr, value) == instr.any \/ value \in instr.allowed

\* Cell::new(instr)
NewCell(instr) == [instr |-> instr, prev |-> None]

\* A Cell that never reports its stored value (level-triggered polls).
HasSet_Never(cell, value) == FALSE

\* Cell::has_set
HasSet(cell, value) == cell.prev = Some(value)

\* Cell::set
SetCell(cell, value) == [cell EXCEPT !.prev = Some(value)]

\* edge_triggered_poll, lines 53-57
IsAllAllowed(cs, values) ==
    \A k \in DOMAIN cs : IsAllowed(cs[k].instr, values[k])

\* edge_triggered_poll, lines 61-65
HasAllSet(cs, values) == \A k \in DOMAIN cs : HasSet(cs[k], values[k])

\* SlotMatcher::edge_triggered_poll(values): the value returned and the cells
\* it leaves. The return at line 59 comes before the cells are set.
EdgeTriggeredPoll(cs, values) ==
    IF ~IsAllAllowed(cs, values) THEN [ret |-> FALSE, cells |-> cs]
    ELSE [ret |-> ~HasAllSet(cs, values),
          cells |-> [k \in DOMAIN cs |-> SetCell(cs[k], values[k])]]

\* SlotMatcher::new(&[f1, f2]): a cell per allow-set and the extra Any cell.
InitCron ==
    /\ \E f1 \in AllowedSets, f2 \in AllowedSets :
          cells = <<NewCell(f1), NewCell(f2), NewCell(Any)>>
    /\ ret = FALSE
    /\ polled = <<>>
    /\ fired = None
    /\ changed = FALSE
    /\ polls = 0
    /\ RotatorOff
    /\ LockOff
    /\ FlusherOff
    /\ DistOff
    /\ TimeOff

\* One call of edge_triggered_poll with values of the matcher's length.
SlotMatcher_Poll ==
    /\ polls < MaxPolls
    /\ \E values \in [DOMAIN cells -> SlotValues] :
          /\ cells' = EdgeTriggeredPoll(cells, values).cells
          /\ ret' = EdgeTriggeredPoll(cells, values).ret
          /\ polled' = values
          /\ fired' = IF ret' THEN Some(values) ELSE fired
          /\ changed' = IF ret' THEN FALSE
                        ELSE (changed \/ (fired.some /\ values /= fired.val))
    /\ polls' = polls + 1
    /\ UNCHANGED besidesCron

NextCron == SlotMatcher_Poll

SpecCron == InitCron /\ [][NextCron]_cronVars


\* ================================================================= TimePast
\* A poll that stores the instant only when the predicate matches.
Stored_OnMatch(p, t) == IF DailyContains(p, t) THEN Some(t) ELSE p

\* TimePast::poll, line 37: self.prev = Some(now)
Stored(p, t) == Some(t)

\* TimePast::new(Arc::new(DailyContains))
InitTime ==
    /\ time_past = None
    /\ verdict = FALSE
    /\ preceding = None
    /\ earlier = None
    /\ time_polls = 0
    /\ RotatorOff
    /\ LockOff
    /\ FlusherOff
    /\ DistOff
    /\ CronOff

\* TimePast::poll(now), for any instant: the callers pass Zoned::now(), which a
\* wall clock may also set backwards.
TimePast_Poll ==
    /\ time_polls < MaxTimePolls
    /\ \E t \in 0 .. MaxInstant :
          /\ verdict' = Poll(time_past, t)
          /\ time_past' = Stored(time_past, t)
          /\ preceding' = Some(t)
    /\ earlier' = preceding
    /\ time_polls' = time_polls + 1
    /\ UNCHANGED besidesTime

NextTime == TimePast_Poll

SpecTime == InitTime /\ [][NextTime]_timeVars

\* ============================================ the daily trigger under the Mutex
\* The threads of SpecLock around a rotator whose policy has
\* time: Some(TimePast::new(Arc::new(DailyContains))): the poll of
\* try_rotate_file reads the wall clock while the caller holds the guard.
dailyVars == <<lockVars, timeVars>>

\* What the steps of these threads leave alone.
besidesDaily == <<vars, flusherVars, distVars, cronVars>>

\* Every max_records the policy admits, with the daily trigger configured.
DailyMaxRecords == {None} \cup {Some(m) : m \in 1 .. MaxMaxRecords}

\* LogRotator::new on a fresh directory, then Arc::new(Mutex::new(..)) and
\* spawn_flushers. History fields of guarded: changes counts the polls whose
\* date differs from the date of the poll before them, by_records the polls at
\* which only max_records triggered, fired_for the threads whose poll returned
\* true.
InitDaily ==
    /\ mutex = "free"
    /\ tpc = [t \in Threads |-> IF t = Flusher THEN "sleep" ELSE "start"]
    /\ \E max_records \in DailyMaxRecords :
          guarded = [max_records |-> max_records, time |-> TRUE,
                     records_written |-> 0, epoch |-> 0, in_writer |-> 0,
                     serialized |-> 0, marker |-> 0, pruned |-> 0,
                     changes |-> 0, by_records |-> 0, fired_for |-> {}]
    /\ ticks = 0
    /\ time_past = None
    /\ verdict = FALSE
    /\ preceding = None
    /\ earlier = None
    /\ time_polls = 0
    /\ RotatorOff
    /\ FlusherOff
    /\ DistOff
    /\ CronOff

\* LogRotator::try_rotate_file, lines 81-92, by a caller (from incr_record_count)
\* or by the flusher (line 30): both triggers are evaluated, the poll with the
\* instant Zoned::now() returns at that moment, which a wall clock may also set
\* backwards.
Daily_TryRotate(t) ==
    /\ tpc[t] = "try_rotate"
    /\ \E n \in 0 .. MaxInstant :
          LET is_max_records_triggered ==
                  IsMaxRecordsTriggered(guarded.max_records, guarded.records_written)
              is_time_triggered == IsTimeTriggered(guarded.time, time_past, n)
              date_changed == preceding.some /\ Date(preceding.val) /= Date(n)
          IN  /\ time_past' = Stored(time_past, n)
              /\ verdict' = is_time_triggered
              /\ preceding' = Some(n)
              /\ guarded' = [guarded EXCEPT
                    !.changes = IF date_changed THEN @ + 1 ELSE @,
                    !.by_records = IF is_max_records_triggered /\ ~date_changed
                                   THEN @ + 1 ELSE @,
                    !.fired_for = IF is_time_triggered THEN @ \cup {t} ELSE @]
              /\ IF is_max_records_triggered \/ is_time_triggered
                 THEN tpc' = [tpc EXCEPT ![t] = "replace_writer"]
                 ELSE tpc' = [tpc EXCEPT ![t] = "unlock"]
    /\ earlier' = preceding
    /\ time_polls' = time_polls + 1
    /\ UNCHANGED <<mutex, ticks>>
    /\ UNCHANGED besidesDaily

NextDaily ==
    \/ \E t \in Callers : Caller_Lock(t)
    \/ \E t \in Callers : Caller_Serialize(t)
    \/ \E t \in Callers : Caller_Incr(t)
    \/ Flusher_Lock
    \/ Flusher_Flush
    \/ \E t \in Threads : Daily_TryRotate(t)
    \/ \E t \in Threads : Thread_ReplaceWriter(t)
    \/ \E t \in Threads : Thread_WriteEpoch(t)
    \/ \E t \in Threads : Thread_DeleteOld(t)
    \/ \E t \in Threads : Thread_Unlock(t)

SpecDaily == InitDaily /\ [][NextDaily]_dailyVars


\* ================================================================= claims
\* The stream was constructed over an empty directory and never killed.
Fresh == crashes = 0 /\ ~resumed.exists /\ pc /= "down"

\* The Table exists (from Table::new to the end of the process).
TableLive == pc \notin {"down", "new_open"}

\* The text t is a decimal numeral of E: digits only, after at most one "+",
\* equal to E's decimal digits once leading zeros are dropped.
Denotes(t, E) ==
    LET d == IF t /= <<>> /\ Head(t) = "+" THEN Tail(t) ELSE t IN
        /\ d /= <<>>
        /\ \E k \in 0 .. Len(d) - 1 :
              /\ \A i \in 1 .. k : d[i] = "0"
              /\ SubSeq(d, k + 1, Len(d)) = UsizeToString(E)

Readable(f) == f.exists /\ \E E \in Usize : Denotes(f.text, E)

\* The records numbered from a up to b - 1, in order.
Records(a, b) == [i \in 1 .. (b - a) |-> a + i - 1]

ResumedFrom == ParseUsize(resumed.text).val

\* A construction over a readable marker E whose segment E is on disk.
C2_Constructing == op = "new" /\ Readable(resumed) /\ segs[ResumedFrom].exists

\* The segment a construction over marker E opens: E + 1, created empty.
C2_OpensFresh ==
    (op = "new" /\ Readable(resumed) /\ pc = "write_epoch_open") =>
        /\ table.epoch = WrappingAdd(ResumedFrom, 1)
        /\ table.writer.path = table.epoch
        /\ table.writer.buf = <<>>
        /\ segs[table.epoch] = EmptySeg

\* C2 as stated: for every retention window, a construction over marker E and
\* segment E opens a fresh empty segment at E + 1 and no step of it changes the
\* segment file of epoch E.
C2_AnyWindow ==
    /\ []C2_OpensFresh
    /\ [][C2_Constructing => segs'[ResumedFrom] = segs[ResumedFrom]]_vars

\* C2 amended: a construction over marker E and segment E opens a fresh empty
\* segment at E + 1 (whose path its pruning step unlinks again when the
\* retention window is 0); with a retention window other than 1 no step of it
\* changes the segment file of epoch E, and with retention window 1 its pruning
\* step deletes segment E (and no other step changes it).
C2_WindowNotOne ==
    /\ []C2_OpensFresh
    /\ [][C2_Constructing =>
            /\ IF rotation.max_epochs = 1 /\ pc = "delete_old" /\ pc' = "idle"
               THEN ~segs'[ResumedFrom].exists
               ELSE segs'[ResumedFrom] = segs[ResumedFrom]
            /\ (pc = "delete_old" /\ pc' = "idle") =>
                  (segs'[table.epoch].exists <=> rotation.max_epochs /= 0)]_vars

\* Construction over marker E has finished with window 2: segment E still holds
\* its record and the active segment E + 1 is empty.
C2_Witness ==
    /\ pc = "idle"
    /\ Readable(resumed)
    /\ rotation.max_epochs = 2
    /\ table.epoch = WrappingAdd(ResumedFrom, 1)
    /\ table.records_written = 0
    /\ segs[ResumedFrom] = [exists |-> TRUE, recs |-> <<0>>]
    /\ segs[table.epoch] = EmptySeg

\* ----------------------------------------------------------------------- C3
\* C3: in every state, kills between filesystem steps included, a marker that
\* reads as epoch e implies that segment e was created before; and a
\* construction never holds a segment with records in it: the segment it
\* resumes into is empty from its opening to the end of the construction.
C3_MarkerAfterSegment ==
    /\ (marker.exists /\ ParseUsize(marker.text).some)
          => ParseUsize(marker.text).val \in created
    /\ (op = "new" /\ pc /= "new_open") =>
          /\ segs[table.epoch].recs = <<>>
          /\ table.writer.buf = <<>>
          /\ table.writer.path = table.epoch

\* A restart after a kill, over a directory with records in it, has written its
\* marker behind the new, empty segment.
C3_Witness ==
    /\ crashes = 1
    /\ op = "new"
    /\ pc = "delete_old"
    /\ written >= 2
    /\ marker = File(UsizeToString(table.epoch))
    /\ segs[table.epoch] = EmptySeg
    /\ table.epoch \in created

\* ----------------------------------------------------------------------- C4
\* The claim's trigger condition, on the state try_rotate_file reads.
C4_Triggered ==
    \/ rotation.max_records.some /\ table.records_written >= rotation.max_records.val
    \/ rotation.time /\ prev.some /\ Date(prev.val) /= Date(now)

\* C4: a trigger evaluation rotates iff the record threshold is reached or the
\* time trigger's poll is true; a rotation opens a fresh segment at epoch + 1,
\* installs it as the writer and then runs epoch enforcement; an evaluation
\* that does not rotate leaves epoch, counter, writer, marker and segments.
C4_TriggerEvaluation ==
    [][ /\ (pc = "try_rotate" /\ pc' /= "down") =>
              /\ (pc' = "replace_open") <=> C4_Triggered
              /\ pc' /= "replace_open" =>
                    pc' = "idle" /\ UNCHANGED <<table, marker, segs>>
        /\ (pc = "replace_open" /\ pc' /= "down") =>
              /\ pc' = "table_replace"
              /\ segs'[WrappingAdd(table.epoch, 1)] = EmptySeg
        /\ (pc = "table_replace" /\ pc' /= "down") =>
              /\ pc' = "write_epoch_open"
              /\ table'.writer = Writer(WrappingAdd(table.epoch, 1))
      ]_vars

\* ----------------------------------------------------------------------- C5
\* C5: on a fresh directory with only the max-records trigger and a retention
\* window K >= 1, whenever no operation is in progress the segments on disk are
\* exactly the epochs max(0, e - K + 1) .. e, e the active epoch (flushes, which
\* leave e alone, therefore leave the set alone).
C5_SegmentWindow ==
    (/\ Fresh
     /\ pc = "idle"
     /\ rotation.max_records.some
     /\ ~rotation.time
     /\ rotation.max_epochs >= 1) =>
        SegsOnDisk =
            {e \in Usize :
                /\ e <= table.epoch
                /\ e >= table.epoch - rotation.max_epochs + 1}

\* Three rotations with window 2: segments 0 and 1 are gone, 2 and 3 are there.
C5_Witness ==
    /\ Fresh
    /\ pc = "idle"
    /\ rotation.max_records.some
    /\ ~rotation.time
    /\ rotation.max_epochs = 2
    /\ table.epoch = 3
    /\ SegsOnDisk = {2, 3}

\* ----------------------------------------------------------------------- C6
\* The run of the claim: max_records = 2, max_epochs = 2, no time trigger, a
\* fresh directory, no operation in progress.
C6_Run ==
    /\ Fresh
    /\ pc = "idle"
    /\ rotation.max_records = Some(2)
    /\ ~rotation.time
    /\ rotation.max_epochs = 2

\* C6 as stated: after a and b segment 0 is present and 1 absent; after c
\* segments 0 and 1 are present and 2 absent; after d segment 0 is absent, 1 and
\* 2 are present and 3 is absent (a flush changes none of this).
C6_AsStated ==
    C6_Run =>
        /\ written = 2 => (SegExists(0) /\ ~SegExists(1))
        /\ written = 3 => (SegExists(0) /\ SegExists(1) /\ ~SegExists(2))
        /\ written = 4 =>
              (~SegExists(0) /\ SegExists(1) /\ SegExists(2) /\ ~SegExists(3))

\* C6 amended: after a segment 0 is present and 1 absent; after a and b
\* segments 0 and 1 are present and 2 absent (b's increment rotates); after c
\* the same; after d segment 0 is absent, 1 and 2 are present and 3 is absent
\* (a flush changes none of this).
C6_Amended ==
    C6_Run =>
        /\ written = 1 => SegsOnDisk = {0}
        /\ written = 2 => SegsOnDisk = {0, 1}
        /\ written = 3 => SegsOnDisk = {0, 1}
        /\ written = 4 => SegsOnDisk = {1, 2}

\* Record d has been written and flushed: segments 1 and 2 remain.
C6_Witness ==
    /\ C6_Run
    /\ written = 4
    /\ table.writer.buf = <<>>
    /\ SegsOnDisk = {1, 2}
    /\ segs[1].recs = <<2, 3>>

\* ----------------------------------------------------------------------- C7
\* C7: whenever no operation is in progress, the segment files on disk number
\* at most the active segment plus retention_window predecessors, whatever
\* kills and restarts came before.
C7_BoundedFootprint ==
    pc = "idle" => Cardinality(SegsOnDisk) <= rotation.max_epochs + 1

\* ----------------------------------------------------------------------- C8
\* C8 as stated: on a fresh stream (retention window at least 1, as in the
\* tests), once the N records written so far are flushed, the active segment's
\* file holds exactly those N records in order.
C8_AllRecords ==
    (Fresh /\ pc = "idle" /\ table.writer.buf = <<>> /\ rotation.max_epochs >= 1) =>
        /\ segs[table.epoch].exists
        /\ segs[table.epoch].recs = Records(0, written)

\* C8 amended: once everything written is flushed, the active segment's file
\* holds exactly the records written since the last rotation or restart, in
\* write order (all N only while no rotation happened); with retention window 0
\* pruning has removed the active segment's path and there is no file to read.
C8_RecordsSinceRotation ==
    (pc = "idle" /\ table.writer.buf = <<>>) =>
        IF rotation.max_epochs = 0
        THEN ~segs[table.epoch].exists
        ELSE /\ segs[table.epoch].exists
             /\ segs[table.epoch].recs =
                    Records(written - table.records_written, written)

\* Two records went to segment 0, a rotation followed, and two flushed records
\* are in the active segment 1.
C8_Witness ==
    /\ Fresh
    /\ pc = "idle"
    /\ table.writer.buf = <<>>
    /\ table.epoch = 1
    /\ segs[0].recs = <<0, 1>>
    /\ segs[1].recs = <<2, 3>>

\* ----------------------------------------------------------------------- C9
\* The step installs another writer in the Table.
C9_Replaced == table'.writer.path /= table.writer.path

\* C9: over the Table's life, the counter is reset to 0 exactly when the writer
\* is replaced, the epoch advances by exactly 1 (wrapping) in that step, no
\* other step changes the epoch or decreases the counter, and
\* incr_record_count adds exactly 1.
C9_TableInvariant ==
    [][ (TableLive /\ pc' /= "down") =>
            /\ C9_Replaced =>
                  /\ table'.records_written = 0
                  /\ table'.epoch = WrappingAdd(table.epoch, 1)
            /\ ~C9_Replaced =>
                  /\ table'.epoch = table.epoch
                  /\ table'.records_written >= table.records_written
            /\ pc = "incr" => table'.records_written = table.records_written + 1
      ]_vars

\* ---------------------------------------------------------------------- C10
\* C10: epoch arithmetic never traps, and the epoch in the open segment's path
\* is the Table's epoch, also across a rotation at the maximum epoch.
C10_WrapsNeverTraps ==
    /\ pc /= "panicked"
    /\ TableLive => table.writer.path = table.epoch

\* ---------------------------------------------------------------------- C11
\* Epochs that callers wrote records into, as far as the disk still shows it.
C11_EpochsWithRecords == {e \in Usize : segs[e].exists /\ segs[e].recs /= <<>>}

\* C11: below the wraparound bound, the epoch that a construction (after any
\* kill, also one that fell between the truncation and the write of the marker)
\* or a rotation is about to make active is strictly greater than every epoch
\* that was active before: greater than every epoch whose segment holds records.
C11_EpochMonotonic ==
    UsizeMax \notin created =>
        /\ pc = "new_open" =>
              \A e \in C11_EpochsWithRecords : e < table.epoch
        /\ pc = "replace_open" =>
              \A e \in C11_EpochsWithRecords : e < NewPathEpoch(table.epoch)

\* ---------------------------------------------------------------------- C12
\* C12: in every interleaving of the callers and the flusher, while a caller is
\* between its record write and its increment no thread is at a rotation step
\* (writer replacement, marker write, pruning); no two threads are in a
\* rotation at once; and so, whenever the mutex is free, the counter equals the
\* number of records the current writer received and the marker holds the epoch.
C12_Atomic ==
    /\ \A t \in Callers : \A u \in Threads :
          (tpc[t] = "incr" /\ u /= t) => tpc[u] \notin RotationSteps
    /\ \A t \in Threads : \A u \in Threads :
          (tpc[t] \in RotationSteps /\ tpc[u] \in RotationSteps) => t = u
    /\ mutex = "free" =>
          /\ guarded.records_written = guarded.in_writer
          /\ guarded.marker = guarded.epoch
          /\ guarded.pruned = guarded.epoch

\* One caller is in a rotation while the other caller and the flusher wait for
\* the mutex, after an earlier rotation by the flusher.
C12_Witness ==
    /\ mutex = "c1"
    /\ tpc["c1"] = "write_epoch"
    /\ tpc["c2"] = "start"
    /\ tpc[Flusher] = "sleep"
    /\ ticks >= 1
    /\ guarded.epoch = 2

\* ---------------------------------------------------------------------- C13
\* C13: for spawn_flusher and for spawn_flushers alike, a tick that began after
\* every target had been dropped by its owners does not end in another sleep
\* (the thread has removed the dead targets and left its loop), and while the
\* thread sleeps it holds no strong reference to a target.
C13_SelfTerminates ==
    fpc = "sleep" =>
        /\ ~woke_dead
        /\ upgraded = 0

\* The same for the thread of spawn_flusher alone.
C13_SpawnFlusherReturns ==
    spawned = "spawn_flusher" => C13_SelfTerminates

\* The thread of spawn_flushers: dead targets are gone from its list once a tick
\* that began with every target dropped has ended, and it sleeps on.
C13_SpawnFlushersSleepsOn ==
    (spawned = "spawn_flushers" /\ woke_dead /\ fpc = "sleep") =>
        rotators = <<>> /\ upgraded = 0

\* ---------------------------------------------------------------------- C14
\* The step is the call `op` on the stream name n.
Called(fn, n) == dcall'.op = fn /\ dcall'.name = n

\* C14: writer(name) constructs the stream's rotator (directory, empty segment,
\* marker, counter 0) only when the name is not registered yet, and otherwise
\* changes neither the registry nor any file; incr_record_count(name) on a name
\* that is not registered changes neither the registry nor any directory or
\* file; and no step removes an entry of the registry.
C14_Registry ==
    [][ \A n \in StreamNames :
          /\ IsOccupied(registry, n) => IsOccupied(registry', n)
          /\ (Called("writer", n) /\ IsOccupied(registry, n)) =>
                UNCHANGED <<registry, dirs>>
          /\ (Called("writer", n) /\ ~IsOccupied(registry, n)) =>
                /\ IsOccupied(registry', n)
                /\ registry'[n].records_written = 0
                /\ registry'[n].writer = Writer(registry'[n].epoch)
                /\ dirs'[OutputDir(n)].exists
                /\ dirs'[OutputDir(n)].marker = File(UsizeToString(registry'[n].epoch))
                /\ dirs'[OutputDir(n)].segs[registry'[n].epoch] = EmptySeg
                /\ \A m \in StreamNames \ {n} :
                      IsOccupied(registry', m) <=> IsOccupied(registry, m)
          /\ (Called("incr", n) /\ ~IsOccupied(registry, n)) =>
                UNCHANGED <<registry, dirs>>
      ]_distVars

\* writer("a") was called again after the stream had rotated to epoch 1, and
\* incr_record_count("b") was called on the unregistered "b": no entry and no
\* directory for "b".
C14_Witness ==
    /\ <<"b">> \in StreamNames
    /\ dcall = [op |-> "incr", name |-> <<"b">>]
    /\ ~registry[<<"b">>].some
    /\ ~dirs[<<"b">>].exists
    /\ registry[<<"a">>].some
    /\ registry[<<"a">>].epoch = 1
    /\ registry[<<"a">>].writer.buf /= <<>>

\* ---------------------------------------------------------------------- C15
\* C15: when the flush of one stream fails inside LogDistributor::flush, every
\* other registered stream has been flushed by that call, and the distributor
\* stays usable through its Mutex.
C15_FlushFailureIsolated ==
    dpc = "panicked" =>
        \A n \in Registered \ {dcall.name} :
            /\ n \notin pending
            /\ ~poisoned

\* ---------------------------------------------------------------------- C16
\* C16: for any two distinct stream names A and B, B a registered stream, a
\* writer(A) or incr_record_count(A) call leaves B's rotator (epoch, counter,
\* time-trigger state, writer) and the marker and segment files of B's
\* directory unchanged.
C16_Isolation ==
    [][ \A A \in StreamNames : \A B \in StreamNames \ {A} :
          (IsOccupied(registry, B)
              /\ (Called("writer", A) \/ Called("incr", A))) =>
              /\ registry'[B] = registry[B]
              /\ dirs'[OutputDir(B)] = dirs[OutputDir(B)]
      ]_distVars

\* The same for two names whose directories differ.
C16_DistinctDirectories ==
    [][ \A A \in StreamNames : \A B \in StreamNames \ {A} :
          (OutputDir(A) /= OutputDir(B)
              /\ IsOccupied(registry, B)
              /\ (Called("writer", A) \/ Called("incr", A))) =>
              /\ registry'[B] = registry[B]
              /\ dirs'[OutputDir(B)] = dirs[OutputDir(B)]
      ]_distVars

\* ---------------------------------------------------------------------- C17
\* C17: every poll, also one with a field that is not allowed, leaves in every
\* cell the value it polled; and after values T have fired, once other values
\* were polled (allowed or not), a poll with T returns true.
C17_UnconditionalOverwrite ==
    [][ polls' /= polls =>
          /\ \A k \in DOMAIN cells : cells'[k].prev = Some(polled'[k])
          /\ (fired.some /\ changed /\ polled' = fired.val) => ret'
      ]_cronVars

\* ---------------------------------------------------------------------- C18
\* C18: a poll returns true exactly when every field's value is in its allow-set
\* (the trailing field allows everything) and the values differ from the values
\* of the last poll that returned true (any values differ before the first such
\* poll): so the first matching poll returns true, an unchanged matching tuple
\* returns true once and then false, and true comes again only after a change.
C18_EdgeTriggered ==
    [][ polls' /= polls =>
          /\ cells'[Len(cells)].instr = Any
          /\ ret' <=>
                /\ \A k \in DOMAIN cells : IsAllowed(cells[k].instr, polled'[k])
                /\ ~fired.some \/ polled' /= fired.val
          /\ (ret /\ polled' = polled) => ~ret'
      ]_cronVars

\* Four polls of a matcher whose first field is pinned to 1: the tuple fired,
\* was polled again without firing, and another matching tuple then fired.
C18_Witness ==
    /\ polls = 4
    /\ cells[1].instr = Selected({1})
    /\ ret
    /\ fired = Some(<<1, 0, 1>>)
    /\ polled = <<1, 0, 1>>
    /\ ~changed

\* ---------------------------------------------------------------------- C19
\* C19: the first poll returns false whatever its instant; every later poll
\* returns true exactly when its date differs from the date of the poll before
\* it; and every poll, true or false, leaves its instant as the stored previous.
C19_DailyTrigger ==
    /\ time_polls = 1 => ~verdict
    /\ time_polls >= 2 =>
          (verdict <=> Date(earlier.val) /= Date(preceding.val))
    /\ time_polls >= 1 => time_past = preceding

\* A poll two days after the poll before it returned true, once.
C19_Witness ==
    /\ time_polls = 3
    /\ earlier = Some(0)
    /\ preceding = Some(2 * InstantsPerDay + 1)
    /\ verdict

\* ---------------------------------------------------------------------- C20
\* The epoch at which the running process constructed its rotator.
C20_Start == ResumeEpoch(resumed)

\* C20: with max_records = m, whenever no operation is in progress the counter
\* is below m; no segment on disk other than the active one (so every segment
\* rotated out) holds more than m records, and without a time trigger every
\* segment the running process rotated out holds exactly m; on a fresh stream
\* without a time trigger the active epoch is floor(written / m), the writer
\* writes to it, segment e holds the records e*m .. e*m + m - 1 in write order
\* and the active segment with its writer's buffer the records from e*m on.
C20_CounterAndSegments ==
    (pc = "idle" /\ rotation.max_records.some) =>
        LET m == rotation.max_records.val IN
        /\ table.records_written < m
        /\ \A e \in SegsOnDisk \ {table.epoch} : Len(segs[e].recs) <= m
        /\ ~rotation.time =>
              \A e \in SegsOnDisk :
                  (C20_Start <= e /\ e < table.epoch) => Len(segs[e].recs) = m
        /\ (Fresh /\ ~rotation.time) =>
              /\ table.epoch = written \div m
              /\ table.writer.path = table.epoch
              /\ \A e \in SegsOnDisk :
                    e < table.epoch => segs[e].recs = Records(e * m, e * m + m)
              /\ table.writer.linked =>
                    segs[table.epoch].recs \o table.writer.buf
                        = Records(table.epoch * m, written)

\* Four records with m = 2 and window 2: the second rotation has just ended,
\* records 2 and 3 fill the rotated-out segment 1, and the active epoch is 2
\* with counter 0.
C20_Witness ==
    /\ Fresh
    /\ pc = "idle"
    /\ rotation = [max_records |-> Some(2), time |-> FALSE, max_epochs |-> 2]
    /\ written = 4
    /\ table.epoch = 2
    /\ table.records_written = 0
    /\ segs[1].exists
    /\ segs[1].recs = <<2, 3>>


\* ---------------------------------------------------------------------- C21
\* A rotation decided by try_rotate_file whose replace_writer has not run yet.
C21_Deciding == Cardinality({t \in Threads : tpc[t] = "replace_writer"})

\* C21: with the daily trigger polled by the callers and by the flusher under
\* the Mutex, the rotations so far are as many as the polls whose date differs
\* from the date of the poll before them, plus the polls at which only
\* max_records triggered: one rotation for each change of date, whichever
\* thread polled first after it. At most one rotation is being decided, the
\* poll that decided it returned true exactly on a change of date, and without
\* max_records the epoch is the count of the date changes.
C21_OneRotationPerDateChange ==
    /\ C21_Deciding <= 1
    /\ guarded.epoch + C21_Deciding = guarded.changes + guarded.by_records
    /\ ~guarded.max_records.some => guarded.by_records = 0
    /\ time_polls >= 2 =>
          (verdict <=> Date(earlier.val) /= Date(preceding.val))
    /\ time_polls = 1 => ~verdict

\* Two changes of date, one met first by the flusher and one by a caller, with
\* no max_records: two rotations, both complete.
C21_Witness ==
    /\ ~guarded.max_records.some
    /\ mutex = "free"
    /\ guarded.changes = 2
    /\ guarded.epoch = 2
    /\ guarded.marker = 2
    /\ Flusher \in guarded.fired_for
    /\ guarded.fired_for \cap Callers /= {}


\* ---------------------------------------------------------------------- C22
\* The segment file of the active epoch is on disk and the marker reads as
\* that epoch.
C22_ActiveOnDisk ==
    /\ SegExists(table.epoch)
    /\ marker.exists
    /\ Denotes(marker.text, table.epoch)

\* C22: for every retention window the policy type admits, 0 and 1 included,
\* once a construction or a rotation has ended (and until the next operation
\* starts) the segment file of the active epoch is on disk and the marker holds
\* that epoch: enforce_epoch never deletes the active segment.
C22_ActiveSegmentKept == pc = "idle" => C22_ActiveOnDisk

\* The same for the retention windows of at least 1.
C22_WindowAtLeastOne ==
    (pc = "idle" /\ rotation.max_epochs >= 1) => C22_ActiveOnDisk

\* With retention window 0 the pruning step of enforce_epoch removes the path
\* of the segment that replace_writer (or the construction) has just opened.
C22_WindowZero ==
    [][(pc = "delete_old" /\ pc' = "idle" /\ rotation.max_epochs = 0) =>
          /\ SegExists(table.epoch)
          /\ ~segs'[table'.epoch].exists
          /\ ~table'.writer.linked]_vars

====
